---- MODULE Spec2Model ----
(***************************************************************************)
(* Chat broker of act9v4: server/rmi_middleware.js (user registry, message *)
(* history, event emitter), server/socket_handler.js (one handler per      *)
(* WebSocket connection, broadcast and unicast delivery) and the HTTP      *)
(* registration route of server/server_file.js.                            *)
(*                                                                         *)
(* Strings that the code folds or trims (user names) are sequences of      *)
(* one-character strings, so that toLowerCase and trim are computed.       *)
(* A JavaScript object is a record whose DOMAIN is the set of fields that  *)
(* are present; an absent field is undefined.                              *)
(* An async function runs synchronously up to its first await; every await *)
(* is a point where the handlers of other events may run.                  *)
(***************************************************************************)
EXTENDS Integers, Sequences, FiniteSets, TLC

VARIABLES
    users,              \* rmi_middleware.js users: userId -> {userId, username}
    messageHistory,     \* rmi_middleware.js messageHistory
    clock,              \* number of messages stamped so far (new Date())
    nextId,             \* number of uuidv4() values drawn so far
    activeConnections,  \* socket_handler.js activeConnections: userId -> ws
    readyState,         \* ws.readyState of every connection handle
    connUserId,         \* the closure variable userId of handleConnection
    pc,                 \* position of the 'message' handler running for a connection
    cur,                \* locals of that handler (message, snapshots)
    rosterTasks,        \* sendUserListUpdate calls suspended at their await
    inbox,              \* frames ws.send put on each connection, in order
    httpLast,           \* the last answer of POST /api/users/register
    queried,            \* the last answer of getMessageHistory(limit) to a caller
    budget              \* inbound events (frames, requests, closes) still allowed,
                        \* and the number of connections used so far

vars == << users, messageHistory, clock, nextId, activeConnections, readyState,
           connUserId, pc, cur, rosterTasks, inbox, httpLast, queried, budget >>

-----------------------------------------------------------------------------
(* Bounds of the exploration *)

MaxEvents == 3
MaxPartyEvents == 5
MaxAppends == 102

(* Program constants *)

MAX_HISTORY == 100
DefaultLimit == 20

-----------------------------------------------------------------------------
(* Strings *)

Min(a, b) == IF a < b THEN a ELSE b
Max(a, b) == IF a > b THEN a ELSE b

LowerChar(ch) ==
    CASE ch = "A" -> "a"
      [] ch = "B" -> "b"
      [] ch = "O" -> "o"
      [] OTHER -> ch

toLowerCase(s) == [i \in 1..Len(s) |-> LowerChar(s[i])]

RECURSIVE trimStart(_)
trimStart(s) == IF s # << >> /\ Head(s) = " " THEN trimStart(Tail(s)) ELSE s

RECURSIVE trimEnd(_)
trimEnd(s) ==
    IF s # << >> /\ s[Len(s)] = " " THEN trimEnd(SubSeq(s, 1, Len(s) - 1)) ELSE s

trim(s) == trimEnd(trimStart(s))

Bob == << "B", "o", "b" >>
bob == << "b", "o", "b" >>
BOB == << "B", "O", "B" >>
BobPadded == << " ", "B", "o", "b", " " >>
Al == << "A", "l" >>
Blank == << " " >>
Empty == << >>

-----------------------------------------------------------------------------
(* Objects *)

Has(obj, field) == field \in DOMAIN obj

\* obj with obj[field] = value, the field added when absent
With(obj, field, value) ==
    [k \in DOMAIN obj \cup {field} |-> IF k = field THEN value ELSE obj[k]]

\* a Map without one key
Without(map, key) == [k \in DOMAIN map \ {key} |-> map[k]]

\* !x for a string field: undefined and '' are falsy
Falsy(obj, field) ==
    \/ ~Has(obj, field)
    \/ obj[field] = (IF field \in { "username", "targetUsername", "content" }
                     THEN << >> ELSE "")

uuidv4(n) == "u" \o ToString(n)

SystemId == "system"
Sistema == << "S", "i", "s", "t", "e", "m", "a" >>
StaleId == "u0"

-----------------------------------------------------------------------------
(* rmi_middleware.js: history *)

\* Array.prototype.slice(start) with one argument
slice(arr, start) ==
    LET from == IF start < 0 THEN Max(Len(arr) + start, 0) ELSE Min(start, Len(arr))
    IN  SubSeq(arr, from + 1, Len(arr))

\* a variant that returns the whole history
getMessageHistoryAll(history, limit) == history

getMessageHistory(history, limit) ==
    LET count == Min(limit, Len(history))
    IN  slice(history, 0 - count)

\* a variant that drops the newest message instead of the oldest
saveMessagePop(history, message) ==
    LET pushed == Append(history, message)
    IN  IF Len(pushed) > MAX_HISTORY THEN SubSeq(pushed, 1, MAX_HISTORY) ELSE pushed

\* a variant that puts the message in front (unshift)
saveMessageFront(history, message) ==
    LET pushed == << message >> \o history
    IN  IF Len(pushed) > MAX_HISTORY THEN Tail(pushed) ELSE pushed

\* a variant that stores nothing
saveMessageSkip(history, message) == history

saveMessage(history, message) ==
    LET pushed == Append(history, message)
    IN  IF Len(pushed) > MAX_HISTORY THEN Tail(pushed) ELSE pushed

createSystemMessage(content, type, now) ==
    [ userId |-> SystemId, username |-> Sistema, content |-> content,
      timestamp |-> now, type |-> type ]

-----------------------------------------------------------------------------
(* Wire encoding (xml2js).  A wire text is either not well-formed or a      *)
(* document with a root element and one child element per field.           *)

TextFields == { "username", "targetUsername", "content" }

IsBlank(text) == text # << >> /\ \A i \in 1..Len(text) : text[i] = " "

\* the entity the builder writes for a character of a text node
Entity(ch) ==
    CASE ch = "&" -> << "&", "a", "m", "p", ";" >>
      [] ch = "<" -> << "&", "l", "t", ";" >>
      [] ch = ">" -> << "&", "g", "t", ";" >>
      [] OTHER -> << ch >>

RECURSIVE escaped(_, _)
escaped(text, i) ==
    IF i > Len(text) THEN << >> ELSE Entity(text[i]) \o escaped(text, i + 1)

\* a builder that writes text nodes as they are
textEscapeNone(text) == text

\* the builder's escape of a text node
textEscape(text) ==
    IF \A i \in 1..Len(text) : text[i] \notin { "&", "<", ">" } THEN text
    ELSE escaped(text, 1)

StartsWith(text, prefix) ==
    Len(text) >= Len(prefix) /\ SubSeq(text, 1, Len(prefix)) = prefix

RECURSIVE decoded(_)
decoded(text) ==
    IF text = << >> THEN << >>
    ELSE IF \E ch \in { "&", "<", ">" } : StartsWith(text, Entity(ch))
         THEN LET ch == CHOOSE x \in { "&", "<", ">" } : StartsWith(text, Entity(x))
              IN  << ch >> \o decoded(SubSeq(text, Len(Entity(ch)) + 1, Len(text)))
         ELSE << Head(text) >> \o decoded(Tail(text))

\* the parser's text of a text node: entities read back as characters
textDecode(text) ==
    IF \A i \in 1..Len(text) : text[i] # "&" THEN text ELSE decoded(text)

\* xml2js.Builder.buildObject({ message }): one child element per own field,
\* '' written as an empty element
messageToXml(message) ==
    [ wellFormed |-> TRUE, root |-> "message",
      elems |-> [ k \in DOMAIN message |->
                    IF k \in TextFields THEN textEscape(message[k]) ELSE message[k] ] ]

\* xml2js.Parser({ explicitArray: false }): an element without attributes or
\* children reads as its text; trim and normalize are off, and a text of
\* white space only is kept (emptyTag is '', so the element reads as the
\* white space itself)
parsedElems(doc) ==
    [ k \in DOMAIN doc.elems |->
        IF k \in TextFields THEN textDecode(doc.elems[k]) ELSE doc.elems[k] ]

\* xmlToMessage rejects exactly the texts the parser rejects
xmlRejects(doc) == ~doc.wellFormed

\* result.message: undefined when the root element is another one
xmlHasMessage(doc) == doc.wellFormed /\ doc.root = "message"

xmlToMessage(doc) == parsedElems(doc)

-----------------------------------------------------------------------------
(* Message texts *)

ErrEmptyName == "El nombre de usuario no puede estar vacio"
ErrNameInUse == "El nombre de usuario ya esta en uso"
ErrChatData == "Datos de mensaje incompletos"
ErrNoUser == "Usuario no encontrado"
ErrPrivateData == "Datos de mensaje privado incompletos"
ErrNoSender == "Usuario remitente no encontrado"
ErrNoTarget == "Usuario destinatario no encontrado"
ErrXml == "XML invalido"
ErrType == "Cannot read properties of undefined"

JoinText(username) == username \o << " se ha unido al chat" >>
LeaveText(username) == username \o << " ha abandonado el chat" >>
ErrorText(msg) == << "Error: ", msg >>
Established == << "Conexion establecida" >>
Hi == << "h", "i" >>

-----------------------------------------------------------------------------
(* socket_handler.js: delivery *)

OPEN == "OPEN"

\* ws.send(frame): a handle that is not OPEN takes nothing and raises nothing
wsSend(ib, rs, c, frame) ==
    IF rs[c] = OPEN THEN [ib EXCEPT ![c] = Append(@, frame)] ELSE ib

\* the keys under which a handle is stored in activeConnections
KeysOf(ac, c) == { u \in DOMAIN ac : ac[u] = c }

\* a variant that sends to every open connection, stored or not
broadcastMessageEveryone(ib, ac, rs, frame) ==
    [ c \in DOMAIN ib |-> IF rs[c] = OPEN THEN Append(ib[c], frame) ELSE ib[c] ]

\* a variant that sends without looking at readyState
broadcastMessageAny(ib, ac, rs, frame) ==
    [ c \in DOMAIN ib |->
        ib[c] \o [ i \in 1..Cardinality(KeysOf(ac, c)) |-> frame ] ]

\* a broadcast that gives up when one stored handle is not open
broadcastMessageStall(ib, ac, rs, frame) ==
    IF \E u \in DOMAIN ac : rs[ac[u]] # OPEN THEN ib
    ELSE [ c \in DOMAIN ib |->
             ib[c] \o [ i \in 1..Cardinality({ u \in DOMAIN ac : ac[u] = c }) |-> frame ] ]

\* for (const ws of activeConnections.values()) if (ws.readyState === ws.OPEN) ws.send
broadcastMessage(ib, ac, rs, frame) ==
    [ c \in DOMAIN ib |->
        IF rs[c] = OPEN
        THEN ib[c] \o [ i \in 1..Cardinality(KeysOf(ac, c)) |-> frame ]
        ELSE ib[c] ]

\* a variant that echoes to the sender even when the sender is the target
sendPrivateMessageEcho(ib, ac, rs, frame, targetUserId, senderUserId) ==
    LET toTarget ==
            IF targetUserId \in DOMAIN ac /\ rs[ac[targetUserId]] = OPEN
            THEN wsSend(ib, rs, ac[targetUserId], frame)
            ELSE ib
    IN  IF senderUserId \in DOMAIN ac /\ rs[ac[senderUserId]] = OPEN
        THEN wsSend(toTarget, rs, ac[senderUserId], frame)
        ELSE toTarget

sendPrivateMessage(ib, ac, rs, frame, targetUserId, senderUserId) ==
    LET toTarget ==
            IF targetUserId \in DOMAIN ac /\ rs[ac[targetUserId]] = OPEN
            THEN wsSend(ib, rs, ac[targetUserId], frame)
            ELSE ib
    IN  IF /\ senderUserId \in DOMAIN ac
           /\ rs[ac[senderUserId]] = OPEN
           /\ senderUserId # targetUserId
        THEN wsSend(toTarget, rs, ac[senderUserId], frame)
        ELSE toTarget

\* a variant that broadcasts every message
onChatEventBroadcast(ib, ac, rs, message) ==
    broadcastMessage(ib, ac, rs, messageToXml(message))

\* the listener subscribeToEvents puts on chatEvents 'message'
onChatEvent(ib, ac, rs, message) ==
    IF message.type = "PRIVATE"
    THEN sendPrivateMessage(ib, ac, rs, messageToXml(message),
                            message.targetUserId, message.userId)
    ELSE broadcastMessage(ib, ac, rs, messageToXml(message))

-----------------------------------------------------------------------------
(* rmi_middleware.js: registry *)

\* a variant that compares the names as they are
nameInUseExact(us, username) ==
    \E u \in DOMAIN us : us[u].username = username

\* users.some(user => user.username.toLowerCase() === username.toLowerCase())
nameInUse(us, username) ==
    \E u \in DOMAIN us : toLowerCase(us[u].username) = toLowerCase(username)

\* a variant that leaves the name check to the caller
registerUserErrorUnchecked(us, obj) ==
    IF Falsy(obj, "username") \/ trim(obj.username) = << >> THEN ErrEmptyName
    ELSE ""

\* the message of the Error registerUser throws, "" when it throws none
registerUserError(us, obj) ==
    IF Falsy(obj, "username") \/ trim(obj.username) = << >> THEN ErrEmptyName
    ELSE IF nameInUse(us, obj.username) THEN ErrNameInUse
    ELSE ""

\* registerUser past its two checks: the state it leaves, and the id it returns
registerUser(username) ==
    LET userId == uuidv4(nextId + 1)
        joinMessage == createSystemMessage(JoinText(username), "JOIN", clock + 1)
    IN  [ userId |-> userId,
          users |-> With(users, userId, [ userId |-> userId, username |-> username ]),
          messageHistory |-> saveMessage(messageHistory, joinMessage),
          inbox |-> onChatEvent(inbox, activeConnections, readyState, joinMessage) ]

\* the message of the Error sendMessage throws, "" when it throws none
sendMessageError(messageData) ==
    IF Falsy(messageData, "userId") \/ Falsy(messageData, "content") THEN ErrChatData
    ELSE IF messageData.userId \notin DOMAIN users THEN ErrNoUser
    ELSE ""

\* a variant that takes the sender name from the caller's data
chatMessageClientName(messageData) ==
    [ k \in { "userId", "content", "timestamp", "type" }
             \cup (DOMAIN messageData \cap { "username" }) |->
        CASE k = "timestamp" -> clock + 1
          [] k = "type" -> "CHAT"
          [] OTHER -> messageData[k] ]

chatMessage(messageData) ==
    [ userId |-> messageData.userId,
      username |-> users[messageData.userId].username,
      content |-> messageData.content,
      timestamp |-> clock + 1,
      type |-> "CHAT" ]

\* the message of the Error rmi sendPrivateMessage throws, "" when it throws none
sendPrivateError(messageData) ==
    IF \/ Falsy(messageData, "userId")
       \/ Falsy(messageData, "targetUserId")
       \/ Falsy(messageData, "content") THEN ErrPrivateData
    ELSE IF messageData.userId \notin DOMAIN users THEN ErrNoSender
    ELSE IF messageData.targetUserId \notin DOMAIN users THEN ErrNoTarget
    ELSE ""

\* a variant that leaves the name of the target out
privateMessageNoTargetName(messageData) ==
    [ userId |-> messageData.userId,
      username |-> users[messageData.userId].username,
      targetUserId |-> messageData.targetUserId,
      content |-> messageData.content,
      timestamp |-> clock + 1,
      type |-> "PRIVATE" ]

privateMessage(messageData) ==
    [ userId |-> messageData.userId,
      username |-> users[messageData.userId].username,
      targetUserId |-> messageData.targetUserId,
      targetUsername |-> users[messageData.targetUserId].username,
      content |-> messageData.content,
      timestamp |-> clock + 1,
      type |-> "PRIVATE" ]

\* a variant that announces the leave and keeps the user
disconnectUserKeep(userId, ac, rs) ==
    LET leaveMessage ==
            createSystemMessage(LeaveText(users[userId].username), "LEAVE", clock + 1)
    IN  [ users |-> users,
          messageHistory |-> saveMessage(messageHistory, leaveMessage),
          inbox |-> onChatEvent(inbox, ac, rs, leaveMessage) ]

\* a variant that empties the registry
disconnectUserEveryone(userId, ac, rs) ==
    LET leaveMessage ==
            createSystemMessage(LeaveText(users[userId].username), "LEAVE", clock + 1)
    IN  [ users |-> << >>,
          messageHistory |-> saveMessage(messageHistory, leaveMessage),
          inbox |-> onChatEvent(inbox, ac, rs, leaveMessage) ]

\* disconnectUser(userId) for a user that exists, with the binding map and the
\* ready states it runs under
disconnectUser(userId, ac, rs) ==
    LET leaveMessage ==
            createSystemMessage(LeaveText(users[userId].username), "LEAVE", clock + 1)
    IN  [ users |-> Without(users, userId),
          messageHistory |-> saveMessage(messageHistory, leaveMessage),
          inbox |-> onChatEvent(inbox, ac, rs, leaveMessage) ]

\* JSON.stringify(users): the Map keeps insertion order, which is the order of the ids
RECURSIVE stringify(_, _)
stringify(us, n) ==
    IF n = 0 THEN << >>
    ELSE stringify(us, n - 1) \o
         (IF uuidv4(n) \in DOMAIN us
          THEN << uuidv4(n) >> \o us[uuidv4(n)].username
          ELSE << >>)

-----------------------------------------------------------------------------
(* Initial state: the server has started and has accepted the connections  *)
(* of Conns: handleConnection(ws) has run for each, with userId = null, and *)
(* nothing has been received yet.  Connections are interchangeable, so they *)
(* are first used in the order of ConnOrder.                               *)

Conns == { "c1", "c2", "c3" }
ConnOrder == << "c1", "c2", "c3" >>

NoUser == ""
NoObject == << >>

InitWith(events) ==
    /\ users = << >>
    /\ messageHistory = << >>
    /\ clock = 0
    /\ nextId = 0
    /\ activeConnections = << >>
    /\ readyState = [ c \in Conns |-> OPEN ]
    /\ connUserId = [ c \in Conns |-> NoUser ]
    /\ pc = [ c \in Conns |-> "idle" ]
    /\ cur = [ c \in Conns |-> NoObject ]
    /\ rosterTasks = << >>
    /\ inbox = [ c \in Conns |-> << >> ]
    /\ httpLast = [ status |-> 0 ]
    /\ queried = [ limit |-> 0, result |-> << >> ]
    /\ budget = [ events |-> events, used |-> 0 ]

Init == InitWith(MaxEvents)

-----------------------------------------------------------------------------
(* Inbound frames a client may send *)

JoinNames == { Bob, bob, BobPadded, Al, Blank }
ReconnectNames == { Al }
FrameIds == DOMAIN users \cup { StaleId }

Doc(message) == [ wellFormed |-> TRUE, root |-> "message", elems |-> message ]

JoinFrames ==
    { Doc([ type |-> "JOIN", username |-> n ]) : n \in JoinNames }
    \cup { Doc([ type |-> "JOIN", username |-> n, userId |-> i ]) :
             n \in ReconnectNames, i \in FrameIds }

ChatFrames ==
    { Doc([ type |-> "CHAT", userId |-> i, username |-> Al, content |-> Hi ]) :
        i \in FrameIds }
    \cup { Doc([ type |-> "CHAT", userId |-> i, username |-> Al ]) : i \in FrameIds }
    \cup { Doc([ type |-> "CHAT", username |-> Al, content |-> Hi ]) }

PrivateFrames ==
    { Doc([ type |-> "PRIVATE", userId |-> i, username |-> Al,
            targetUserId |-> t, content |-> Hi ]) : i \in FrameIds, t \in FrameIds }

Bye == << "Usuario cerrando sesion" >>

LogoutFrames ==
    { Doc([ type |-> "LOGOUT", userId |-> i, username |-> Al, content |-> Bye ]) :
        i \in FrameIds }

\* well-formed frames of a type the switch has no case for, or of no type
OtherFrames ==
    { Doc([ type |-> "USER_LIST", userId |-> StaleId, content |-> Hi ]),
      Doc([ userId |-> StaleId, content |-> Hi ]) }

\* texts that are not well-formed, and documents with another root element
NotXml == [ wellFormed |-> FALSE, root |-> "", elems |-> << >> ]
BadFrames ==
    { NotXml,
      [ wellFormed |-> TRUE, root |-> "msg",
        elems |-> [ type |-> "JOIN", username |-> Al ] ] }

-----------------------------------------------------------------------------
ConnIndex(c) == CHOOSE i \in 1..Len(ConnOrder) : ConnOrder[i] = c

(* ws.on('message'): the handler calls xmlToMessage and waits for it *)

Receive(c, text) ==
    /\ readyState[c] = OPEN
    /\ pc[c] = "idle"
    /\ budget.events > 0
    /\ ConnIndex(c) <= budget.used + 1
    /\ budget' = [budget EXCEPT !.events = @ - 1, !.used = Max(@, ConnIndex(c))]
    /\ pc' = [pc EXCEPT ![c] = "parsed"]
    /\ cur' = [cur EXCEPT ![c] = [ text |-> text ]]
    /\ UNCHANGED << users, messageHistory, clock, nextId, activeConnections, readyState,
                    connUserId, rosterTasks, inbox, httpLast, queried >>

\* no 'message' handler and no sendUserListUpdate is under way
Quiet == rosterTasks = << >> /\ \A c \in Conns : pc[c] = "idle"

\* Clients send their next frame once the server is quiet; requests and closes
\* come at any time.
ReceiveJoin(c) == Quiet /\ \E text \in JoinFrames : Receive(c, text)
ReceiveChat(c) == Quiet /\ \E text \in ChatFrames : Receive(c, text)
ReceivePrivate(c) == Quiet /\ \E text \in PrivateFrames : Receive(c, text)
ReceiveLogout(c) == Quiet /\ \E text \in LogoutFrames : Receive(c, text)
ReceiveOther(c) == Quiet /\ \E text \in OtherFrames : Receive(c, text)
ReceiveBad(c) == Quiet /\ \E text \in BadFrames : Receive(c, text)

\* the handler leaves its try block by an exception: the catch block runs next
Throw(c, msg) ==
    /\ pc' = [pc EXCEPT ![c] = "catch"]
    /\ cur' = [cur EXCEPT ![c] = [ error |-> msg ]]

\* the handler has nothing left to run
Finish(c) ==
    /\ pc' = [pc EXCEPT ![c] = "idle"]
    /\ cur' = [cur EXCEPT ![c] = NoObject]

\* the decoded message of the handler, once xmlToMessage has answered
Parsed(c) == pc[c] = "parsed" /\ xmlHasMessage(cur[c].text)
Message(c) == xmlToMessage(cur[c].text)
TypeOf(message) == IF Has(message, "type") THEN message.type ELSE "undefined"

(* catch (error): the error goes back to the client as a frame of type CHAT *)

\* a catch block that sends the error to every stored open handle
CatchBroadcast(c) ==
    /\ pc[c] = "catch"
    /\ inbox' = broadcastMessage(inbox, activeConnections, readyState,
                                 messageToXml([ userId |-> SystemId, username |-> Sistema,
                                                content |-> ErrorText(cur[c].error),
                                                timestamp |-> clock, type |-> "CHAT" ]))
    /\ Finish(c)
    /\ UNCHANGED << users, messageHistory, clock, nextId, activeConnections, readyState,
                    connUserId, rosterTasks, httpLast, queried, budget >>

Catch(c) ==
    /\ pc[c] = "catch"
    /\ inbox' = wsSend(inbox, readyState, c,
                       messageToXml([ userId |-> SystemId, username |-> Sistema,
                                      content |-> ErrorText(cur[c].error),
                                      timestamp |-> clock, type |-> "CHAT" ]))
    /\ Finish(c)
    /\ UNCHANGED << users, messageHistory, clock, nextId, activeConnections, readyState,
                    connUserId, rosterTasks, httpLast, queried, budget >>

(* xmlToMessage throws: the text is not well-formed *)

ParseFailed(c) ==
    /\ pc[c] = "parsed"
    /\ xmlRejects(cur[c].text)
    /\ Throw(c, ErrXml)
    /\ UNCHANGED << users, messageHistory, clock, nextId, activeConnections, readyState,
                    connUserId, rosterTasks, inbox, httpLast, queried, budget >>

(* result.message is undefined: reading message.type throws a TypeError *)

NoMessage(c) ==
    /\ pc[c] = "parsed"
    /\ ~xmlRejects(cur[c].text)
    /\ ~xmlHasMessage(cur[c].text)
    /\ Throw(c, ErrType)
    /\ UNCHANGED << users, messageHistory, clock, nextId, activeConnections, readyState,
                    connUserId, rosterTasks, inbox, httpLast, queried, budget >>

(* default: the frame is logged and dropped *)

\* a variant that treats a frame of another type as an error
DispatchOtherThrows(c) ==
    /\ Parsed(c)
    /\ TypeOf(Message(c)) \notin { "JOIN", "CHAT", "PRIVATE", "LOGOUT" }
    /\ Throw(c, ErrType)
    /\ UNCHANGED << users, messageHistory, clock, nextId, activeConnections, readyState,
                    connUserId, rosterTasks, inbox, httpLast, queried, budget >>

DispatchOther(c) ==
    /\ Parsed(c)
    /\ TypeOf(Message(c)) \notin { "JOIN", "CHAT", "PRIVATE", "LOGOUT" }
    /\ Finish(c)
    /\ UNCHANGED << users, messageHistory, clock, nextId, activeConnections, readyState,
                    connUserId, rosterTasks, inbox, httpLast, queried, budget >>

(* case 'LOGOUT': if (userId) await rmiMiddleware.disconnectUser(userId) *)

DispatchLogout(c) ==
    /\ Parsed(c)
    /\ TypeOf(Message(c)) = "LOGOUT"
    /\ IF connUserId[c] = NoUser
       THEN /\ Finish(c)
            /\ UNCHANGED << users, messageHistory, clock, inbox >>
       ELSE /\ pc' = [pc EXCEPT ![c] = "logout_return"]
            /\ cur' = [cur EXCEPT ![c] = NoObject]
            /\ IF connUserId[c] \notin DOMAIN users
               THEN UNCHANGED << users, messageHistory, clock, inbox >>
               ELSE LET r == disconnectUser(connUserId[c], activeConnections, readyState)
                    IN  /\ users' = r.users
                        /\ messageHistory' = r.messageHistory
                        /\ inbox' = r.inbox
                        /\ clock' = clock + 1
    /\ UNCHANGED << nextId, activeConnections, readyState, connUserId, rosterTasks,
                    httpLast, queried, budget >>

(* case 'LOGOUT' after disconnectUser has answered: lines 85-86 *)

LogoutReturn(c) ==
    /\ pc[c] = "logout_return"
    /\ activeConnections' = Without(activeConnections, connUserId[c])
    /\ connUserId' = [connUserId EXCEPT ![c] = NoUser]
    /\ Finish(c)
    /\ UNCHANGED << users, messageHistory, clock, nextId, readyState, rosterTasks, inbox,
                    httpLast, queried, budget >>

(* case 'CHAT': rmiMiddleware.sendMessage({ userId, content }) *)

DispatchChat(c) ==
    /\ Parsed(c)
    /\ TypeOf(Message(c)) = "CHAT"
    /\ LET messageData == [ k \in DOMAIN Message(c) \cap { "userId", "content" } |->
                              Message(c)[k] ]
           err == sendMessageError(messageData)
       IN  IF err # ""
           THEN /\ Throw(c, err)
                /\ UNCHANGED << messageHistory, clock, inbox >>
           ELSE /\ messageHistory' = saveMessage(messageHistory, chatMessage(messageData))
                /\ clock' = clock + 1
                /\ inbox' = onChatEvent(inbox, activeConnections, readyState,
                                        chatMessage(messageData))
                /\ Finish(c)
    /\ UNCHANGED << users, nextId, activeConnections, readyState, connUserId,
                    rosterTasks, httpLast, queried, budget >>

(* case 'PRIVATE': rmiMiddleware.sendPrivateMessage({ userId, targetUserId, content }) *)

DispatchPrivate(c) ==
    /\ Parsed(c)
    /\ TypeOf(Message(c)) = "PRIVATE"
    /\ LET messageData ==
               [ k \in DOMAIN Message(c) \cap { "userId", "targetUserId", "content" } |->
                   Message(c)[k] ]
           err == sendPrivateError(messageData)
       IN  IF err # ""
           THEN /\ Throw(c, err)
                /\ UNCHANGED << messageHistory, clock, inbox >>
           ELSE /\ messageHistory' =
                       saveMessage(messageHistory, privateMessage(messageData))
                /\ clock' = clock + 1
                /\ inbox' = onChatEvent(inbox, activeConnections, readyState,
                                        privateMessage(messageData))
                /\ Finish(c)
    /\ UNCHANGED << users, nextId, activeConnections, readyState, connUserId,
                    rosterTasks, httpLast, queried, budget >>

(* case 'JOIN': handleJoin(ws, message) up to its await of getUsers() *)

DispatchJoin(c) ==
    /\ Parsed(c)
    /\ TypeOf(Message(c)) = "JOIN"
    /\ pc' = [pc EXCEPT ![c] = "join_users"]
    /\ cur' = [cur EXCEPT ![c] = [ message |-> Message(c), users |-> users ]]
    /\ UNCHANGED << users, messageHistory, clock, nextId, activeConnections, readyState,
                    connUserId, rosterTasks, inbox, httpLast, queried, budget >>

\* a variant whose confirmation carries the sender id of the frame instead
joinResponseSystem(clientId) ==
    [ userId |-> SystemId, username |-> Sistema, content |-> Established,
      timestamp |-> clock, type |-> "JOIN", clientId |-> SystemId ]

joinResponse(clientId) ==
    [ userId |-> SystemId, username |-> Sistema, content |-> Established,
      timestamp |-> clock, type |-> "JOIN", clientId |-> clientId ]

\* a variant that answers a taken name with a frame of type CHAT
nameTakenResponseChat ==
    [ userId |-> SystemId, username |-> Sistema, content |-> ErrorText(ErrNameInUse),
      timestamp |-> clock, type |-> "CHAT" ]

nameTakenResponse ==
    [ userId |-> SystemId, username |-> Sistema, content |-> ErrorText(ErrNameInUse),
      timestamp |-> clock, type |-> "ERROR" ]

\* handleJoin lines 167-183: store the connection, confirm, ask for the history
BindAndConfirm(c, message, ib) ==
    /\ activeConnections' = With(activeConnections, message.userId, c)
    /\ inbox' = wsSend(ib, readyState, c, messageToXml(joinResponse(message.userId)))
    /\ pc' = [pc EXCEPT ![c] = "join_history"]
    /\ cur' = [cur EXCEPT ![c] =
                 [ message |-> message,
                   history |-> getMessageHistory(messageHistory, DefaultLimit) ]]

\* await rmiMiddleware.registerUser(message.username), called from handleJoin
CallRegister(c, message) ==
    IF registerUserError(users, message) # ""
    THEN /\ Throw(c, registerUserError(users, message))
         /\ UNCHANGED << users, messageHistory, clock, nextId, inbox >>
    ELSE LET r == registerUser(message.username)
         IN  /\ users' = r.users
             /\ messageHistory' = r.messageHistory
             /\ inbox' = r.inbox
             /\ clock' = clock + 1
             /\ nextId' = nextId + 1
             /\ pc' = [pc EXCEPT ![c] = "join_registered"]
             /\ cur' = [cur EXCEPT ![c] = [ message |-> message, result |-> r.userId ]]

\* a variant that takes no JOIN for a reconnect
IsReconnectNever(message) == FALSE

IsReconnect(message) == ~Falsy(message, "userId") /\ message.userId # SystemId

(* handleJoin after getUsers() has answered with its snapshot *)

JoinUsers(c) ==
    /\ pc[c] = "join_users"
    /\ LET message == cur[c].message
           snapshot == cur[c].users
       IN  IF IsReconnect(message)
           THEN IF message.userId \in DOMAIN snapshot
                THEN /\ BindAndConfirm(c, message, inbox)
                     /\ UNCHANGED << users, messageHistory, clock, nextId >>
                ELSE /\ CallRegister(c, message)
                     /\ UNCHANGED activeConnections
           ELSE IF DOMAIN snapshot # { } /\ ~Has(message, "username")
                THEN /\ Throw(c, ErrType)
                     /\ UNCHANGED << users, messageHistory, clock, nextId, inbox,
                                     activeConnections >>
                ELSE IF Has(message, "username") /\ nameInUse(snapshot, message.username)
                     THEN /\ inbox' = wsSend(inbox, readyState, c,
                                             messageToXml(nameTakenResponse))
                          /\ pc' = [pc EXCEPT ![c] = "join_return"]
                          /\ cur' = [cur EXCEPT ![c] = [ message |-> message ]]
                          /\ UNCHANGED << users, messageHistory, clock, nextId,
                                          activeConnections >>
                     ELSE /\ CallRegister(c, message)
                          /\ UNCHANGED activeConnections
    /\ UNCHANGED << readyState, connUserId, rosterTasks, httpLast, queried, budget >>

(* handleJoin after registerUser has answered: message.userId = result.userId *)

\* a variant that keeps the id the frame carried
JoinRegisteredKeepId(c) ==
    /\ pc[c] = "join_registered"
    /\ BindAndConfirm(c, With(cur[c].message, "userId",
                              IF Has(cur[c].message, "userId")
                              THEN cur[c].message.userId ELSE cur[c].result), inbox)
    /\ UNCHANGED << users, messageHistory, clock, nextId, readyState, connUserId,
                    rosterTasks, httpLast, queried, budget >>

JoinRegistered(c) ==
    /\ pc[c] = "join_registered"
    /\ BindAndConfirm(c, With(cur[c].message, "userId", cur[c].result), inbox)
    /\ UNCHANGED << users, messageHistory, clock, nextId, readyState, connUserId,
                    rosterTasks, httpLast, queried, budget >>

\* a variant that replays every message
ReplayedToAll(msg, userId) ==
    msg.type \in { "PRIVATE", "CHAT", "JOIN", "LEAVE" }

\* lines 186-190: a private message of other users is skipped
Replayed(msg, userId) ==
    ~(msg.type = "PRIVATE" /\ msg.targetUserId # userId /\ msg.userId # userId)

RECURSIVE replay(_, _, _, _, _)
replay(ib, rs, c, history, userId) ==
    IF history = << >> THEN ib
    ELSE replay(IF Replayed(Head(history), userId)
                THEN wsSend(ib, rs, c, messageToXml(Head(history)))
                ELSE ib,
                rs, c, Tail(history), userId)

(* handleJoin after getMessageHistory() has answered: the replay loop, then *)
(* sendUserListUpdate() up to its await of getUsers()                       *)

JoinHistory(c) ==
    /\ pc[c] = "join_history"
    /\ inbox' = replay(inbox, readyState, c, cur[c].history, cur[c].message.userId)
    /\ rosterTasks' = Append(rosterTasks, users)
    /\ pc' = [pc EXCEPT ![c] = "join_return"]
    /\ cur' = [cur EXCEPT ![c] = [ message |-> cur[c].message ]]
    /\ UNCHANGED << users, messageHistory, clock, nextId, activeConnections, readyState,
                    connUserId, httpLast, queried, budget >>

(* handleConnection line 61, after handleJoin has returned: userId = message.userId *)

JoinReturn(c) ==
    /\ pc[c] = "join_return"
    /\ connUserId' = [connUserId EXCEPT ![c] =
                        IF Has(cur[c].message, "userId")
                        THEN cur[c].message.userId ELSE NoUser]
    /\ Finish(c)
    /\ UNCHANGED << users, messageHistory, clock, nextId, activeConnections, readyState,
                    rosterTasks, inbox, httpLast, queried, budget >>

(* sendUserListUpdate after getUsers() has answered *)

userListMessage(snapshot) ==
    [ userId |-> SystemId, username |-> Sistema,
      content |-> stringify(snapshot, nextId), timestamp |-> clock,
      type |-> "USER_LIST" ]

RosterTask ==
    /\ rosterTasks # << >>
    /\ inbox' = broadcastMessage(inbox, activeConnections, readyState,
                                 messageToXml(userListMessage(Head(rosterTasks))))
    /\ rosterTasks' = Tail(rosterTasks)
    /\ UNCHANGED << users, messageHistory, clock, nextId, activeConnections, readyState,
                    connUserId, pc, cur, httpLast, queried, budget >>

(* The transport: a close starts (CLOSING), and ends with the 'close' event *)

BeginClose(c) ==
    /\ readyState[c] = OPEN
    /\ ConnIndex(c) <= budget.used
    /\ budget.events > 0
    /\ budget' = [budget EXCEPT !.events = @ - 1]
    /\ readyState' = [readyState EXCEPT ![c] = "CLOSING"]
    /\ UNCHANGED << users, messageHistory, clock, nextId, activeConnections, connUserId,
                    pc, cur, rosterTasks, inbox, httpLast, queried >>

\* ws.on('close'): readyState is CLOSED when the listener runs
FinishClose(c) ==
    /\ \/ readyState[c] = "CLOSING" /\ UNCHANGED budget
       \/ /\ readyState[c] = OPEN
          /\ ConnIndex(c) <= budget.used
          /\ budget.events > 0
          /\ budget' = [budget EXCEPT !.events = @ - 1]
    /\ readyState' = [readyState EXCEPT ![c] = "CLOSED"]
    /\ IF connUserId[c] = NoUser
       THEN UNCHANGED << users, messageHistory, clock, activeConnections, inbox >>
       ELSE /\ activeConnections' = Without(activeConnections, connUserId[c])
            /\ IF connUserId[c] \notin DOMAIN users
               THEN UNCHANGED << users, messageHistory, clock, inbox >>
               ELSE LET r == disconnectUser(connUserId[c], activeConnections',
                                            readyState')
                    IN  /\ users' = r.users
                        /\ messageHistory' = r.messageHistory
                        /\ inbox' = r.inbox
                        /\ clock' = clock + 1
    /\ UNCHANGED << nextId, connUserId, pc, cur, rosterTasks, httpLast, queried >>

(* server_file.js: POST /api/users/register *)

HttpNames == { Bob }
HttpBodies == { [ username |-> n ] : n \in HttpNames }

HttpRegister(body) ==
    /\ budget.events > 0
    /\ budget' = [budget EXCEPT !.events = @ - 1]
    /\ IF Falsy(body, "username")
       THEN /\ httpLast' = [ status |-> 400 ]
            /\ UNCHANGED << users, messageHistory, clock, nextId, inbox >>
       ELSE IF registerUserError(users, body) # ""
            THEN /\ httpLast' = [ status |-> 500 ]
                 /\ UNCHANGED << users, messageHistory, clock, nextId, inbox >>
            ELSE LET r == registerUser(body.username)
                 IN  /\ users' = r.users
                     /\ messageHistory' = r.messageHistory
                     /\ inbox' = r.inbox
                     /\ clock' = clock + 1
                     /\ nextId' = nextId + 1
                     /\ httpLast' = [ status |-> 200, userId |-> r.userId ]
    /\ UNCHANGED << activeConnections, readyState, connUserId, pc, cur, rosterTasks,
                    queried >>

-----------------------------------------------------------------------------

Next ==
    \/ \E c \in Conns :
         \/ ReceiveJoin(c)
         \/ ReceiveChat(c)
         \/ ReceivePrivate(c)
         \/ ReceiveLogout(c)
         \/ ReceiveOther(c)
         \/ ReceiveBad(c)
         \/ ParseFailed(c)
         \/ NoMessage(c)
         \/ DispatchJoin(c)
         \/ DispatchChat(c)
         \/ DispatchPrivate(c)
         \/ DispatchLogout(c)
         \/ LogoutReturn(c)
         \/ DispatchOther(c)
         \/ JoinUsers(c)
         \/ JoinRegistered(c)
         \/ JoinHistory(c)
         \/ JoinReturn(c)
         \/ Catch(c)
         \/ BeginClose(c)
         \/ FinishClose(c)
    \/ RosterTask
    \/ \E body \in HttpBodies : HttpRegister(body)

Spec == Init /\ [][Next]_vars

-----------------------------------------------------------------------------
(* Three clients that follow the client script (client/js/socket_client.js): *)
(* each joins under its own name or with an id it was given, then sends     *)
(* chat and private messages under its own id.                              *)

Carol == << "C", "a", "r", "o", "l" >>
Dave == << "D", "a", "v", "e" >>
PartyName == [ c \in Conns |-> CASE c = "c1" -> Al [] c = "c2" -> Carol [] OTHER -> Dave ]

PartyJoin(c) ==
    /\ Quiet
    /\ connUserId[c] = NoUser
    /\ \E text \in { Doc([ type |-> "JOIN", username |-> PartyName[c] ]) }
                  \cup { Doc([ type |-> "JOIN", username |-> PartyName[c], userId |-> i ]) :
                           i \in DOMAIN users } :
         Receive(c, text)

PartyChat(c) ==
    /\ Quiet
    /\ connUserId[c] # NoUser
    /\ Receive(c, Doc([ type |-> "CHAT", userId |-> connUserId[c],
                        username |-> PartyName[c], content |-> Hi ]))

PartyPrivate(c) ==
    /\ Quiet
    /\ connUserId[c] # NoUser
    /\ \E t \in DOMAIN users :
         Receive(c, Doc([ type |-> "PRIVATE", userId |-> connUserId[c],
                          username |-> PartyName[c], targetUserId |-> t,
                          targetUsername |-> users[t].username, content |-> Hi ]))

PartyNext ==
    \/ \E c \in Conns :
         \/ PartyJoin(c)
         \/ PartyChat(c)
         \/ PartyPrivate(c)
         \/ DispatchJoin(c)
         \/ DispatchChat(c)
         \/ DispatchPrivate(c)
         \/ JoinUsers(c)
         \/ JoinRegistered(c)
         \/ JoinHistory(c)
         \/ JoinReturn(c)
         \/ Catch(c)
         \/ BeginClose(c)
         \/ FinishClose(c)
    \/ RosterTask
    \/ \E body \in HttpBodies : HttpRegister(body)

PartySpec == InitWith(MaxPartyEvents) /\ [][PartyNext]_vars

-----------------------------------------------------------------------------
(* Three registrations of case variants of one name, issued concurrently:   *)
(* every connection sends one JOIN and the three handlers interleave at     *)
(* their awaits.                                                            *)

RaceName == [ c \in Conns |-> CASE c = "c1" -> Bob [] c = "c2" -> bob [] OTHER -> BOB ]

RaceReceive(c) ==
    /\ ConnIndex(c) = budget.used + 1
    /\ Receive(c, Doc([ type |-> "JOIN", username |-> RaceName[c] ]))

RaceNext ==
    \/ \E c \in Conns :
         \/ RaceReceive(c)
         \/ DispatchJoin(c)
         \/ JoinUsers(c)
         \/ JoinRegistered(c)
         \/ JoinHistory(c)
         \/ JoinReturn(c)
         \/ Catch(c)
    \/ RosterTask

RaceSpec == InitWith(Cardinality(Conns)) /\ [][RaceNext]_vars

-----------------------------------------------------------------------------
(* The history alone: messages are saved one after the other and callers    *)
(* ask getMessageHistory(limit) for the recent ones.                        *)

Limits == { 0, 1, 2, DefaultLimit, MAX_HISTORY, 1000 }

HistSave ==
    /\ clock < MaxAppends
    /\ messageHistory' = saveMessage(messageHistory,
                                     createSystemMessage(Hi, "CHAT", clock + 1))
    /\ clock' = clock + 1
    /\ UNCHANGED << users, nextId, activeConnections, readyState, connUserId, pc, cur,
                    rosterTasks, inbox, httpLast, queried, budget >>

HistRecent(limit) ==
    /\ queried' = [ limit |-> limit, result |-> getMessageHistory(messageHistory, limit) ]
    /\ UNCHANGED << users, messageHistory, clock, nextId, activeConnections, readyState,
                    connUserId, pc, cur, rosterTasks, inbox, httpLast, budget >>

HistNext == HistSave \/ \E limit \in Limits : HistRecent(limit)

HistorySpec == Init /\ [][HistNext]_vars

-----------------------------------------------------------------------------
(* The wire encoding alone: a message is encoded by messageToXml and the    *)
(* text is decoded by xmlToMessage.  Field values are strings, as in every  *)
(* message the middleware builds (the time stamp is an ISO string).         *)

MaxTextLen == 4

Alphabet == { " ", "&", "<", "l", "t", ";" }
CodecTexts == UNION { [1..n -> Alphabet] : n \in 0..MaxTextLen }
CodecNames == { Al, Blank, << "&" >> }

CodecMessages ==
    { [ userId |-> "u1", username |-> n, content |-> t, timestamp |-> 1,
        type |-> "CHAT" ] : n \in CodecNames, t \in CodecTexts }
    \cup { [ userId |-> "u1", username |-> Al, content |-> t, timestamp |-> 1,
             type |-> "PRIVATE", targetUserId |-> "u2", targetUsername |-> n ] :
             n \in CodecNames, t \in CodecTexts }

CodecInit ==
    /\ users = << >>
    /\ messageHistory = << >>
    /\ clock = 0
    /\ nextId = 0
    /\ activeConnections = << >>
    /\ readyState = [ c \in Conns |-> OPEN ]
    /\ connUserId = [ c \in Conns |-> NoUser ]
    /\ pc = [ c \in Conns |-> "idle" ]
    /\ \E m \in CodecMessages :
          cur = [ c \in Conns |-> IF c = "c1" THEN [ message |-> m ] ELSE NoObject ]
    /\ rosterTasks = << >>
    /\ inbox = [ c \in Conns |-> << >> ]
    /\ httpLast = [ status |-> 0 ]
    /\ queried = [ limit |-> 0, result |-> << >> ]
    /\ budget = [ events |-> 0, used |-> 0 ]

(* messageToXml(message), the text handed to ws.send *)
CodecEncode ==
    /\ inbox["c1"] = << >>
    /\ inbox' = wsSend(inbox, readyState, "c1", messageToXml(cur["c1"].message))
    /\ UNCHANGED << users, messageHistory, clock, nextId, activeConnections,
                    readyState, connUserId, pc, cur, rosterTasks, httpLast,
                    queried, budget >>

(* xmlToMessage(text) on the text that was sent *)
CodecDecode ==
    /\ inbox["c1"] # << >>
    /\ ~Has(cur["c1"], "decoded")
    /\ ~xmlRejects(Head(inbox["c1"]))
    /\ xmlHasMessage(Head(inbox["c1"]))
    /\ cur' = [ cur EXCEPT !["c1"] = With(@, "decoded", xmlToMessage(Head(inbox["c1"]))) ]
    /\ UNCHANGED << users, messageHistory, clock, nextId, activeConnections,
                    readyState, connUserId, pc, rosterTasks, inbox, httpLast,
                    queried, budget >>

CodecNext == CodecEncode \/ CodecDecode

CodecSpec == CodecInit /\ [][CodecNext]_vars

-----------------------------------------------------------------------------
(* The script clients under a fair event loop: a continuation that is ready *)
(* to run is run, and a queued roster task is run.  Frames, requests and    *)
(* closes come or do not come.                                              *)

MaxLiveEvents == 4

Continue(c) ==
    \/ DispatchJoin(c)
    \/ DispatchChat(c)
    \/ DispatchPrivate(c)
    \/ JoinUsers(c)
    \/ JoinRegistered(c)
    \/ JoinHistory(c)
    \/ JoinReturn(c)
    \/ Catch(c)

LiveSpec ==
    /\ InitWith(MaxLiveEvents)
    /\ [][PartyNext]_vars
    /\ \A c \in Conns : WF_vars(Continue(c))
    /\ WF_vars(RosterTask)

-----------------------------------------------------------------------------
(* A long conversation: the script clients join, each at some point, and    *)
(* the first one keeps talking, in turn a private message to the second     *)
(* user and a chat message, so that the history outgrows what a join        *)
(* replays.                                                                 *)

MaxTalkEvents == 26

TalkTarget == uuidv4(2)

Talk ==
    /\ Quiet
    /\ connUserId["c1"] \in DOMAIN users
    /\ IF Len(messageHistory) % 2 = 0 /\ TalkTarget \in DOMAIN users
       THEN Receive("c1", Doc([ type |-> "PRIVATE", userId |-> connUserId["c1"],
                                username |-> PartyName["c1"],
                                targetUserId |-> TalkTarget,
                                targetUsername |-> users[TalkTarget].username,
                                content |-> Hi ]))
       ELSE Receive("c1", Doc([ type |-> "CHAT", userId |-> connUserId["c1"],
                                username |-> PartyName["c1"], content |-> Hi ]))

TalkNext ==
    \/ Talk
    \/ \E c \in Conns :
         \/ PartyJoin(c)
         \/ DispatchJoin(c)
         \/ DispatchChat(c)
         \/ DispatchPrivate(c)
         \/ JoinUsers(c)
         \/ JoinRegistered(c)
         \/ JoinHistory(c)
         \/ JoinReturn(c)
    \/ RosterTask

TalkSpec == InitWith(MaxTalkEvents) /\ [][TalkNext]_vars

-----------------------------------------------------------------------------
(* Properties *)

Fold(name) == toLowerCase(name)
FrameOf(c, i) == inbox[c][i].elems
Confirmed(c) ==
    \E i \in 1..Len(inbox[c]) :
        FrameOf(c, i).type = "JOIN" /\ Has(FrameOf(c, i), "clientId")
Refused(c) ==
    \E i \in 1..Len(inbox[c]) : FrameOf(c, i).content = ErrorText(ErrNameInUse)

\* C1: in every reachable state no two registered users have display names
\* that are equal when compared without regard to case, whether they came in
\* by a JOIN frame or by POST /api/users/register.
C1_NamesUnique ==
    \A u, v \in DOMAIN users :
        u # v => Fold(users[u].username) # Fold(users[v].username)

\* C1 witness: a user registered over HTTP and a user registered by a JOIN
\* frame are in the registry together.
C1_Witness ==
    /\ httpLast.status = 200
    /\ httpLast.userId \in DOMAIN users
    /\ \E u \in DOMAIN users \cap DOMAIN activeConnections : u # httpLast.userId

\* C2: once the three concurrent JOINs of "Bob", "bob" and "BOB" have been
\* handled, whatever the interleaving of the handlers, exactly one of them has
\* succeeded (one user, one confirmation) and each of the others was answered
\* with the name-in-use error.
C2_ExactlyOneWins ==
    (budget.events = 0 /\ Quiet) =>
        /\ Cardinality(DOMAIN users) = 1
        /\ Cardinality({ c \in Conns : Confirmed(c) }) = 1
        /\ \A c \in Conns : ~Confirmed(c) => Refused(c)
        /\ \A c \in Conns : ~(Confirmed(c) /\ Refused(c))

\* C2 witness: a loser that passed handleJoin's own name check and was then
\* refused by registerUser (the error comes from the catch block, type CHAT).
C2_Witness ==
    /\ budget.events = 0 /\ Quiet
    /\ \E c \in Conns : \E i \in 1..Len(inbox[c]) :
           /\ FrameOf(c, i).content = ErrorText(ErrNameInUse)
           /\ FrameOf(c, i).type = "CHAT"

\* C3 (as claimed): a registration whose name, trimmed and case-folded, equals
\* the trimmed and case-folded name of a registered user creates no user.
C3_TrimmedNameRejected ==
    [][\A u \in DOMAIN users' \ DOMAIN users :
         \A v \in DOMAIN users :
            Fold(trim(users'[u].username)) # Fold(trim(users[v].username))]_vars

\* C4: after N saves the history holds exactly the last min(N, 100) saved
\* messages in the order they were saved, and once N > 100,
\* getMessageHistory(1000) answers exactly those 100.
C4_HistoryBound ==
    LET n == Len(messageHistory)
    IN  /\ n = Min(clock, MAX_HISTORY)
        /\ \A i \in 1..n : messageHistory[i].timestamp = clock - n + i
        /\ clock > MAX_HISTORY =>
             LET recent == getMessageHistory(messageHistory, 1000)
             IN  /\ Len(recent) = MAX_HISTORY
                 /\ \A i \in 1..MAX_HISTORY :
                        recent[i].timestamp = clock - MAX_HISTORY + i

\* C4 witness: more than 100 messages were saved and the oldest was evicted.
C4_Witness ==
    /\ clock > MAX_HISTORY
    /\ Len(messageHistory) = MAX_HISTORY
    /\ messageHistory[1].timestamp > 1

\* C5 (as claimed): getMessageHistory(limit) answers exactly the last
\* min(limit, stored) messages, oldest first, never more than limit.
C5_RecentClamps ==
    [][\A limit \in Limits :
         HistRecent(limit) =>
            LET n == Len(messageHistory)
                k == Min(limit, n)
            IN  /\ queried'.result = SubSeq(messageHistory, n - k + 1, n)
                /\ Len(queried'.result) <= limit]_vars

Last(seq) == seq[Len(seq)]
Copies(n, frame) == [ i \in 1..n |-> frame ]
BoundTo(ac, userId, c) == userId \in DOMAIN ac /\ ac[userId] = c
Holds(c, frame) == \E i \in 1..Len(inbox[c]) : inbox[c][i] = frame

C7_PrivateOnlyToParties ==
    [][\A c \in Conns :
         ~JoinHistory(c) =>
            \A i \in (Len(inbox[c]) + 1)..Len(inbox'[c]) :
                LET f == inbox'[c][i].elems
                IN  f.type = "PRIVATE" =>
                        \/ BoundTo(activeConnections, f.targetUserId, c)
                        \/ BoundTo(activeConnections, f.userId, c)]_vars

\* C7 witness: three users are bound to three open connections, one has sent
\* a PRIVATE message to another; their two connections hold it and the third
\* connection does not.
C7_Witness ==
    \E a, b, carol \in DOMAIN activeConnections :
        /\ Cardinality({ a, b, carol }) = 3
        /\ Cardinality({ activeConnections[a], activeConnections[b],
                         activeConnections[carol] }) = 3
        /\ \A u \in { a, b, carol } : readyState[activeConnections[u]] = OPEN
        /\ messageHistory # << >>
        /\ Last(messageHistory).type = "PRIVATE"
        /\ Last(messageHistory).userId = b
        /\ Last(messageHistory).targetUserId = a
        /\ Holds(activeConnections[a], messageToXml(Last(messageHistory)))
        /\ Holds(activeConnections[b], messageToXml(Last(messageHistory)))
        /\ ~Holds(activeConnections[carol], messageToXml(Last(messageHistory)))

\* a step in which a PRIVATE message is created, saved and handed to the listener
PrivateSent ==
    /\ clock' = clock + 1
    /\ Last(messageHistory').type = "PRIVATE"

\* C8: when a PRIVATE message is sent, every connection gets one copy if it is
\* the open handle stored under the target id, plus one copy if it is the open
\* handle stored under the sender id and the sender is not the target, and
\* nothing else: one copy in all when the sender is the target, and the echo
\* alone when the target has no open handle.
C8_UnicastCopies ==
    [][PrivateSent =>
         LET m == Last(messageHistory')
             ToTarget(c) ==
                 IF BoundTo(activeConnections, m.targetUserId, c) /\ readyState[c] = OPEN
                 THEN 1 ELSE 0
             ToSender(c) ==
                 IF /\ BoundTo(activeConnections, m.userId, c)
                    /\ readyState[c] = OPEN
                    /\ m.userId # m.targetUserId
                 THEN 1 ELSE 0
         IN  \A c \in Conns :
                 inbox'[c] = inbox[c] \o Copies(ToTarget(c) + ToSender(c), messageToXml(m))]_vars

\* C8 witness: the last message is a PRIVATE message to a registered user that
\* has no handle; the sender's connection holds the echo as its last frame.
C8_Witness ==
    /\ messageHistory # << >>
    /\ Last(messageHistory).type = "PRIVATE"
    /\ Last(messageHistory).userId # Last(messageHistory).targetUserId
    /\ Last(messageHistory).targetUserId \notin DOMAIN activeConnections
    /\ \E c \in Conns :
           /\ BoundTo(activeConnections, Last(messageHistory).userId, c)
           /\ inbox[c] # << >>
           /\ Last(inbox[c]) = messageToXml(Last(messageHistory))

\* the connection is ACTIVE: it has joined, its user is registered and its
\* handle is the open one stored under that user's id
Active(c) ==
    /\ connUserId[c] \in DOMAIN users
    /\ BoundTo(activeConnections, connUserId[c], c)
    /\ readyState[c] = OPEN

\* C9: when the CHAT frame of an ACTIVE connection, carrying the connection's
\* user id and a content, is dispatched, one CHAT message is appended to the
\* history with that id, that content and the name the registry holds for the
\* id, and its frame is sent to every open connection that is bound, the
\* sender's among them.
C9_ChatCanonical ==
    [][\A c \in Conns :
         ( /\ DispatchChat(c)
           /\ Active(c)
           /\ ~Falsy(Message(c), "userId")
           /\ Message(c).userId = connUserId[c]
           /\ ~Falsy(Message(c), "content") ) =>
            LET m == Last(messageHistory')
            IN  /\ messageHistory' = Append(messageHistory, m)
                /\ m.type = "CHAT"
                /\ m.userId = connUserId[c]
                /\ m.content = Message(c).content
                /\ Has(m, "username")
                /\ m.username = users[connUserId[c]].username
                /\ Len(inbox'[c]) > Len(inbox[c])
                /\ \A d \in Conns :
                       inbox'[d] =
                           IF readyState[d] = OPEN
                           THEN inbox[d] \o
                                Copies(Cardinality({ u \in DOMAIN activeConnections :
                                                       activeConnections[u] = d }),
                                       messageToXml(m))
                           ELSE inbox[d]]_vars

\* C9 witness: a connection bound as a user whose registered name is not the
\* name its CHAT frame carried (Al) holds, as its last frame, the CHAT message
\* last saved, which bears the registered name.
C9_Witness ==
    /\ messageHistory # << >>
    /\ Last(messageHistory).type = "CHAT"
    /\ \E c \in Conns :
           /\ Active(c)
           /\ Last(messageHistory).userId = connUserId[c]
           /\ users[connUserId[c]].username # Al
           /\ Last(messageHistory).username = users[connUserId[c]].username
           /\ inbox[c] # << >>
           /\ Last(inbox[c]) = messageToXml(Last(messageHistory))

\* a step that broadcasts, and the frame it broadcasts
BroadcastStep ==
    \/ RosterTask
    \/ clock' = clock + 1 /\ Last(messageHistory').type # "PRIVATE"
BroadcastFrame ==
    IF clock' = clock + 1
    THEN messageToXml(Last(messageHistory'))
    ELSE messageToXml(userListMessage(Head(rosterTasks)))

\* the binding map a broadcast runs under: the close handler deletes its
\* binding before it calls disconnectUser, every other caller broadcasts under
\* the map it found
BroadcastBindings ==
    IF \E c \in Conns : FinishClose(c) THEN activeConnections' ELSE activeConnections

\* C10: a broadcast sends the frame to every handle that is stored in the
\* binding map and OPEN when it runs, and to no other: a stored handle that is
\* not OPEN gets nothing, and the open ones get the frame all the same.  (The
\* close handler runs with its own handle already CLOSED, hence readyState'.)
C10_BroadcastOpenOnly ==
    [][BroadcastStep =>
         \A c \in Conns :
            /\ readyState'[c] # OPEN => inbox'[c] = inbox[c]
            /\ (\A u \in DOMAIN BroadcastBindings : BroadcastBindings[u] # c)
                   => inbox'[c] = inbox[c]
            /\ ( /\ readyState'[c] = OPEN
                 /\ \E u \in DOMAIN BroadcastBindings : BroadcastBindings[u] = c )
                   => /\ Len(inbox'[c]) > Len(inbox[c])
                      /\ \A i \in (Len(inbox[c]) + 1)..Len(inbox'[c]) :
                             inbox'[c][i] = BroadcastFrame]_vars

\* C10 witness: a stored handle is CLOSING while another stored handle is
\* OPEN, and the open one holds as its last frame a roster that the closing
\* one was not sent.
C10_Witness ==
    \E c, d \in Conns :
        /\ \E u \in DOMAIN activeConnections : activeConnections[u] = c
        /\ \E u \in DOMAIN activeConnections : activeConnections[u] = d
        /\ readyState[c] = "CLOSING"
        /\ readyState[d] = OPEN
        /\ inbox[d] # << >>
        /\ Last(inbox[d]).elems.type = "USER_LIST"
        /\ ~Holds(c, Last(inbox[d]))

\* C11: when handleJoin handles a JOIN frame whose user id is in the registry,
\* the registry, the id counter and the history stay as they are (no user is
\* created, no JOIN system message is made), the handle is stored under that
\* id, and the confirmation sent to the connection carries that id.
C11_ReconnectKeepsRegistry ==
    [][\A c \in Conns :
         ( /\ JoinUsers(c)
           /\ Has(cur[c].message, "userId")
           /\ cur[c].message.userId \in DOMAIN users ) =>
            LET id == cur[c].message.userId
            IN  /\ users' = users
                /\ nextId' = nextId
                /\ messageHistory' = messageHistory
                /\ BoundTo(activeConnections', id, c)
                /\ DOMAIN activeConnections' = DOMAIN activeConnections \cup { id }
                /\ readyState[c] = OPEN =>
                     /\ Len(inbox'[c]) = Len(inbox[c]) + 1
                     /\ Last(inbox'[c]).elems.type = "JOIN"
                     /\ Last(inbox'[c]).elems.clientId = id
                /\ \A d \in Conns \ { c } : inbox'[d] = inbox[d]]_vars

\* C11 witness: two connections hold a confirmation for the same id, the
\* second one is the handle stored under it, and the registry has one user
\* and has drawn one id.
C11_Witness ==
    \E c, d \in Conns : \E id \in DOMAIN users :
        /\ c # d
        /\ Cardinality(DOMAIN users) = 1 /\ nextId = 1
        /\ BoundTo(activeConnections, id, d)
        /\ connUserId[c] = id /\ connUserId[d] = id
        /\ \E i \in 1..Len(inbox[c]) :
               Has(FrameOf(c, i), "clientId") /\ FrameOf(c, i).clientId = id
        /\ \E i \in 1..Len(inbox[d]) :
               Has(FrameOf(d, i), "clientId") /\ FrameOf(d, i).clientId = id

\* the connection has joined: its user is registered and its handle is the one
\* stored under that user's id
Joined(c) ==
    /\ connUserId[c] \in DOMAIN users
    /\ BoundTo(activeConnections, connUserId[c], c)

\* the step removes user id, appends one LEAVE message naming it and sends
\* that message to every other connection that is bound and open
Leaves(c, id) ==
    LET m == Last(messageHistory')
    IN  /\ id \notin DOMAIN users'
        /\ DOMAIN users' = DOMAIN users \ { id }
        /\ messageHistory' = Append(messageHistory, m)
        /\ m.type = "LEAVE"
        /\ m.userId = SystemId
        /\ m.content = LeaveText(users[id].username)
        /\ \A d \in Conns \ { c } :
               inbox'[d] =
                   IF readyState'[d] = OPEN
                   THEN inbox[d] \o
                        Copies(Cardinality({ u \in DOMAIN activeConnections :
                                               activeConnections[u] = d }),
                               messageToXml(m))
                   ELSE inbox[d]

LastRoster(c) ==
    LET at == { i \in 1..Len(inbox[c]) : FrameOf(c, i).type = "USER_LIST" }
    IN  IF at = { } THEN << "none" >>
        ELSE FrameOf(c, CHOOSE i \in at : \A j \in at : j <= i).content

\* C13 (as claimed): every change of the registry is followed by a USER_LIST
\* broadcast of the registry after the change, so that once no handler and no
\* roster update is under way, the last roster sent to every bound open
\* connection is the registry as it is.
C13_RosterFollowsChange ==
    Quiet =>
        \A c \in Conns :
            ( /\ readyState[c] = OPEN
              /\ \E u \in DOMAIN activeConnections : activeConnections[u] = c ) =>
                LastRoster(c) = stringify(users, nextId)

Unbound(ac, c) == \A u \in DOMAIN ac : ac[u] # c
ErrorAt(c, i) == FrameOf(c, i).type = "ERROR"

\* a JOIN without a usable id, on a connection that has not joined, that
\* handleJoin is about to check against the registry it has read
FreshJoin(c) ==
    /\ JoinUsers(c)
    /\ ~IsReconnect(cur[c].message)
    /\ Has(cur[c].message, "username")
    /\ connUserId[c] = NoUser
    /\ Unbound(activeConnections, c)

\* C14: when handleJoin finds the name of a fresh JOIN taken, it sends the
\* connection one frame of type ERROR and changes neither the registry nor the
\* binding map nor the history; the connection stays open, unbound and
\* without a user id when the handler ends; and a later fresh JOIN with a free
\* name, not empty and not white space only, on a connection that was refused
\* registers that name and is bound and confirmed.
C14_RefusedJoinCanRetry ==
    [][\A c \in Conns :
         /\ (FreshJoin(c) /\ nameInUse(cur[c].users, cur[c].message.username)) =>
                /\ inbox'[c] = inbox[c] \o
                       Copies(IF readyState[c] = OPEN THEN 1 ELSE 0,
                              messageToXml([ userId |-> SystemId, username |-> Sistema,
                                             content |-> ErrorText(ErrNameInUse),
                                             timestamp |-> clock, type |-> "ERROR" ]))
                /\ \A d \in Conns \ { c } : inbox'[d] = inbox[d]
                /\ UNCHANGED << users, activeConnections, messageHistory, nextId,
                                readyState, connUserId >>
                /\ pc'[c] = "join_return"
                /\ ~Has(cur'[c].message, "userId")
         /\ (JoinReturn(c) /\ ~Has(cur[c].message, "userId")) =>
                /\ connUserId'[c] = NoUser
                /\ UNCHANGED << users, activeConnections, messageHistory, inbox,
                                readyState >>
         /\ ( /\ FreshJoin(c)
              /\ \E i \in 1..Len(inbox[c]) : ErrorAt(c, i)
              /\ trim(cur[c].message.username) # << >>
              /\ ~nameInUse(cur[c].users, cur[c].message.username)
              /\ ~nameInUse(users, cur[c].message.username) ) =>
                /\ pc'[c] = "join_registered"
                /\ DOMAIN users' = DOMAIN users \cup { cur'[c].result }
                /\ cur'[c].result \notin DOMAIN users
                /\ users'[cur'[c].result].username = cur[c].message.username
         /\ JoinRegistered(c) =>
                /\ BoundTo(activeConnections', cur[c].result, c)
                /\ readyState[c] = OPEN =>
                     /\ Last(inbox'[c]).elems.type = "JOIN"
                     /\ Last(inbox'[c]).elems.clientId = cur[c].result]_vars

\* C14 witness: an open connection was sent an ERROR frame for a taken name
\* and, later, the confirmation of a join; it is bound to the confirmed id,
\* which is registered.
C14_Witness ==
    \E c \in Conns : \E i, j \in 1..Len(inbox[c]) :
        /\ i < j
        /\ ErrorAt(c, i)
        /\ FrameOf(c, i).content = ErrorText(ErrNameInUse)
        /\ Has(FrameOf(c, j), "clientId")
        /\ FrameOf(c, j).clientId = connUserId[c]
        /\ Active(c)
        /\ pc[c] = "idle"

\* C15 (as claimed): every frame that answers a rejected registration, for an
\* empty name or for a taken one, is of type ERROR.
C15_RejectionsAreErrorFrames ==
    \A c \in Conns : \A i \in 1..Len(inbox[c]) :
        FrameOf(c, i).content \in { ErrorText(ErrNameInUse), ErrorText(ErrEmptyName) }
            => FrameOf(c, i).type = "ERROR"

\* C16 (as claimed): a PRIVATE frame whose sender id or target id is not in
\* the registry appends nothing to the history and sends nothing to any
\* connection but the sending one, which is sent one frame of type ERROR.
C16_UnknownPartyErrorFrame ==
    [][\A c \in Conns :
         /\ ( /\ DispatchPrivate(c)
              /\ ~Falsy(Message(c), "userId")
              /\ ~Falsy(Message(c), "targetUserId")
              /\ ~Falsy(Message(c), "content")
              /\ \/ Message(c).userId \notin DOMAIN users
                 \/ Message(c).targetUserId \notin DOMAIN users ) =>
                /\ pc'[c] = "catch"
                /\ cur'[c].error \in { ErrNoSender, ErrNoTarget }
                /\ UNCHANGED << messageHistory, inbox, users, activeConnections >>
         /\ (Catch(c) /\ cur[c].error \in { ErrNoSender, ErrNoTarget }) =>
                /\ UNCHANGED << messageHistory, users, activeConnections >>
                /\ \A d \in Conns \ { c } : inbox'[d] = inbox[d]
                /\ readyState[c] = OPEN =>
                     /\ Len(inbox'[c]) = Len(inbox[c]) + 1
                     /\ Last(inbox'[c]).elems.content = ErrorText(cur[c].error)
                     /\ Last(inbox'[c]).elems.type = "ERROR"]_vars

\* C17 (as claimed): a frame that cannot be decoded, because it is not
\* well-formed or has no message root, changes neither the registry nor the
\* history nor the binding map nor the connection's user id, is answered with
\* one frame of type ERROR to the connection alone, and leaves the connection
\* open and ready for its next frame.
C17_UndecodableErrorFrame ==
    [][\A c \in Conns :
         /\ (ParseFailed(c) \/ NoMessage(c)) =>
                /\ pc'[c] = "catch"
                /\ cur'[c].error \in { ErrXml, ErrType }
                /\ UNCHANGED << users, messageHistory, activeConnections, connUserId,
                                inbox, readyState >>
         /\ (Catch(c) /\ cur[c].error \in { ErrXml, ErrType }) =>
                /\ UNCHANGED << users, messageHistory, activeConnections, connUserId,
                                readyState >>
                /\ pc'[c] = "idle"
                /\ \A d \in Conns \ { c } : inbox'[d] = inbox[d]
                /\ readyState[c] = OPEN =>
                     /\ Len(inbox'[c]) = Len(inbox[c]) + 1
                     /\ Last(inbox'[c]).elems.content = ErrorText(cur[c].error)
                     /\ Last(inbox'[c]).elems.type = "ERROR"]_vars

\* C18: whatever the connection has done before, the handler of a well-formed
\* frame whose type is none of JOIN, CHAT, PRIVATE and LOGOUT (or that has no
\* type) ends at once: it sends no frame to any connection and changes neither
\* the registry nor the history nor the binding map nor the connection's
\* user id.
C18_UnknownTypeDropped ==
    [][\A c \in Conns :
         ( /\ Parsed(c)
           /\ TypeOf(Message(c)) \notin { "JOIN", "CHAT", "PRIVATE", "LOGOUT" }
           /\ pc'[c] # pc[c] ) =>
            /\ pc'[c] = "idle"
            /\ UNCHANGED << users, messageHistory, activeConnections, connUserId, inbox,
                            readyState, rosterTasks, clock, nextId >>]_vars

\* C18 witness: a frame of another type has been decoded on an ACTIVE
\* connection and is about to be dispatched, while another connection is
\* ACTIVE too.
C18_Witness ==
    \E c, d \in Conns :
        /\ c # d
        /\ Active(c) /\ Active(d)
        /\ Parsed(c)
        /\ cur[c].text \in OtherFrames

\* the connection has processed LOGOUT: it was confirmed as a user that is no
\* longer registered, it was sent a LEAVE message after that confirmation, it
\* holds no user id and its handle is still open
LoggedOut(c) ==
    /\ readyState[c] = OPEN
    /\ connUserId[c] = NoUser
    /\ \E i, j \in 1..Len(inbox[c]) :
           /\ i < j
           /\ Has(FrameOf(c, i), "clientId")
           /\ FrameOf(c, i).clientId \notin DOMAIN users
           /\ FrameOf(c, j).type = "LEAVE"

\* C19 (as claimed): once a connection has processed LOGOUT, no step of a
\* handler of that connection adds a user to the registry, stores its handle
\* in the binding map or gives it a user id again.
C19_TerminatedIsFinal ==
    [][\A c \in Conns :
         (LoggedOut(c) /\ pc[c] # "idle" /\ pc'[c] # pc[c]) =>
            /\ DOMAIN users' \subseteq DOMAIN users
            /\ Unbound(activeConnections', c)
            /\ connUserId'[c] = NoUser]_vars

IsConfirmation(frame) == frame.elems.type = "JOIN" /\ Has(frame.elems, "clientId")
NewFrames(c) == SubSeq(inbox'[c], Len(inbox[c]) + 1, Len(inbox'[c]))
\* the step in which handleJoin stores the handle of c and confirms
Binds(c) == pc[c] \in { "join_users", "join_registered" } /\ pc'[c] = "join_history"

\* C20: frames are only ever appended to what a connection was sent; the step
\* of a join that stores an open handle sends it exactly one confirmation,
\* whose clientId is the id the handle is stored under, and sends nothing to
\* any other connection; no other step sends a confirmation; and the replay
\* and the roster update of that join come after it: when the replay runs the
\* confirmation has been sent, the replay sends neither a confirmation nor a
\* roster, and the roster update is only started after the replay.
C20_OneConfirmationFirst ==
    [][\A c \in Conns :
         /\ SubSeq(inbox'[c], 1, Len(inbox[c])) = inbox[c]
         /\ (Binds(c) /\ readyState[c] = OPEN) =>
                /\ Len(NewFrames(c)) = 1
                /\ IsConfirmation(NewFrames(c)[1])
                /\ BoundTo(activeConnections', NewFrames(c)[1].elems.clientId, c)
                /\ NewFrames(c)[1].elems.clientId = cur'[c].message.userId
                /\ \A d \in Conns \ { c } : inbox'[d] = inbox[d]
         /\ ~Binds(c) =>
                \A i \in 1..Len(NewFrames(c)) : ~IsConfirmation(NewFrames(c)[i])
         /\ (JoinHistory(c) /\ readyState[c] = OPEN) =>
                /\ \E i \in 1..Len(inbox[c]) :
                       /\ IsConfirmation(inbox[c][i])
                       /\ FrameOf(c, i).clientId = cur[c].message.userId
                /\ \A i \in 1..Len(NewFrames(c)) :
                       NewFrames(c)[i].elems.type # "USER_LIST"
                /\ rosterTasks' = Append(rosterTasks, users)]_vars

\* C20 witness: a connection that has finished its join was sent exactly one
\* confirmation, first, with the id it is bound to, then a replayed message,
\* and last the roster; another connection is ACTIVE and holds no
\* confirmation with that id.
C20_Witness ==
    \E c, d \in Conns :
        /\ c # d /\ Active(c) /\ Active(d) /\ pc[c] = "idle"
        /\ Len(inbox[c]) >= 3
        /\ IsConfirmation(inbox[c][1])
        /\ FrameOf(c, 1).clientId = connUserId[c]
        /\ \A i \in 2..Len(inbox[c]) : ~IsConfirmation(inbox[c][i])
        /\ FrameOf(c, 2).type = "JOIN"
        /\ Last(inbox[c]).elems.type = "USER_LIST"
        /\ \A i \in 1..Len(inbox[d]) :
               IsConfirmation(inbox[d][i]) => FrameOf(d, i).clientId # connUserId[c]

\* C21 (as claimed): in the step of a fresh join that registers the user and
\* broadcasts the JOIN system message, the handle of the joining connection is
\* already stored under the new id, so that the joining connection, when open,
\* is sent the JOIN system message by that broadcast; and the step of a
\* reconnect that stores the handle makes no JOIN system message.
C21_BoundBeforeJoinBroadcast ==
    [][\A c \in Conns :
         /\ (JoinUsers(c) /\ pc'[c] = "join_registered") =>
                /\ Last(messageHistory').type = "JOIN"
                /\ BoundTo(activeConnections', cur'[c].result, c)
                /\ readyState[c] = OPEN =>
                     \E i \in 1..Len(NewFrames(c)) :
                         NewFrames(c)[i] = messageToXml(Last(messageHistory'))
         /\ (JoinUsers(c) /\ pc'[c] = "join_history") =>
                messageHistory' = messageHistory]_vars

\* no 'message' handler, no roster update and no close is under way
AtRest == Quiet /\ \A c \in Conns : readyState[c] # "CLOSING"

\* C22 (as claimed): whenever nothing is under way, and no user was registered
\* over HTTP, the ids in the registry are the ids in the binding map and every
\* stored handle is open.
C22_UsersAreBindings ==
    (AtRest /\ httpLast.status = 0) =>
        /\ DOMAIN users = DOMAIN activeConnections
        /\ \A u \in DOMAIN activeConnections : readyState[activeConnections[u]] = OPEN

\* the handle of c was replaced: the id c joined with is now stored with
\* another handle, and the handle of c is stored under no id
Replaced(c) ==
    /\ connUserId[c] \in DOMAIN activeConnections
    /\ activeConnections[connUserId[c]] # c
    /\ Unbound(activeConnections, c)

\* a step of the 'message' handler of c
HandlerStep(c) == pc[c] # "idle" /\ pc'[c] # pc[c]

\* C23: once a reconnect has stored another handle under the id of c, no
\* broadcast and no unicast sends the old handle of c anything (only answers
\* to frames c itself sends still reach it), a PRIVATE message to that id goes
\* to the new handle, and every broadcast reaches the new handle while it is
\* open.
C23_ReconnectReplacesHandle ==
    [][\A c \in Conns :
         Replaced(c) =>
            LET id == connUserId[c]
                new == activeConnections[id]
            IN  /\ ~HandlerStep(c) => inbox'[c] = inbox[c]
                /\ ( /\ PrivateSent
                     /\ Last(messageHistory').targetUserId = id
                     /\ readyState[new] = OPEN ) =>
                        /\ NewFrames(new) # << >>
                        /\ \A i \in 1..Len(NewFrames(new)) :
                               NewFrames(new)[i] = messageToXml(Last(messageHistory'))
                /\ ( /\ BroadcastStep
                     /\ id \in DOMAIN BroadcastBindings
                     /\ readyState'[new] = OPEN ) =>
                        /\ NewFrames(new) # << >>
                        /\ NewFrames(new)[1] = BroadcastFrame]_vars

\* C23 witness: the handle of a connection was replaced by a reconnect, and
\* the new handle holds as its last frame the CHAT message last saved, which
\* the old handle was not sent.
C23_Witness ==
    \E c, d \in Conns :
        /\ Replaced(c)
        /\ readyState[c] = OPEN
        /\ BoundTo(activeConnections, connUserId[c], d)
        /\ connUserId[d] = connUserId[c]
        /\ messageHistory # << >>
        /\ Last(messageHistory).type = "CHAT"
        /\ inbox[d] # << >>
        /\ Last(inbox[d]) = messageToXml(Last(messageHistory))
        /\ ~Holds(c, messageToXml(Last(messageHistory)))

\* the JOIN that handleJoin is handling carries an id nobody is registered with
StaleJoin(c) ==
    /\ IsReconnect(cur[c].message)
    /\ cur[c].message.userId \notin DOMAIN users

\* C24: a JOIN whose id is not in the registry and whose name is free creates
\* one user with that name under a newly drawn id, which is not the id of the
\* frame; the handle is then stored under the new id, and under no other new
\* key, and the confirmation carries the new id.
C24_StaleIdRegistersAnew ==
    [][\A c \in Conns :
         /\ ( /\ JoinUsers(c)
              /\ StaleJoin(c)
              /\ cur[c].message.userId \notin DOMAIN cur[c].users
              /\ registerUserError(users, cur[c].message) = "" ) =>
                LET id == cur'[c].result
                IN  /\ pc'[c] = "join_registered"
                    /\ id \notin DOMAIN users
                    /\ id # cur[c].message.userId
                    /\ DOMAIN users' = DOMAIN users \cup { id }
                    /\ users'[id].username = cur[c].message.username
                    /\ cur'[c].message = cur[c].message
                    /\ activeConnections' = activeConnections
         /\ (JoinRegistered(c) /\ StaleJoin(c)) =>
                LET id == cur[c].result
                IN  /\ BoundTo(activeConnections', id, c)
                    /\ DOMAIN activeConnections' = DOMAIN activeConnections \cup { id }
                    /\ cur'[c].message.userId = id
                    /\ readyState[c] = OPEN =>
                         /\ Len(NewFrames(c)) = 1
                         /\ IsConfirmation(NewFrames(c)[1])
                         /\ NewFrames(c)[1].elems.clientId = id]_vars

\* C24 witness: handleJoin has registered the name of a JOIN that carries an
\* id nobody is registered with: the user exists under a new id and the
\* handle is about to be stored.
C24_Witness ==
    \E c \in Conns :
        /\ pc[c] = "join_registered"
        /\ StaleJoin(c)
        /\ cur[c].result \in DOMAIN users
        /\ cur[c].result # cur[c].message.userId
        /\ users[cur[c].result].username = cur[c].message.username

\* C25 (as claimed): once the close of a connection has been handled, no step
\* of a 'message' handler of that connection adds a user to the registry,
\* stores the closed handle in the binding map or sends it a frame.
C25_NoProcessingAfterClose ==
    [][\A c \in Conns :
         (readyState[c] = "CLOSED" /\ HandlerStep(c)) =>
            /\ DOMAIN users' \subseteq DOMAIN users
            /\ \A u \in DOMAIN activeConnections' :
                   activeConnections'[u] = c => BoundTo(activeConnections, u, c)
            /\ inbox'[c] = inbox[c]]_vars

\* C26: every message in the history has the fields targetUserId and
\* targetUsername, both of them, when its type is PRIVATE, and neither of them
\* when it is of another type.
C26_TargetFieldsIffPrivate ==
    \A i \in 1..Len(messageHistory) :
        LET m == messageHistory[i]
        IN  /\ m.type = "PRIVATE" =>
                /\ Has(m, "targetUserId") /\ m.targetUserId # ""
                /\ Has(m, "targetUsername") /\ m.targetUsername # << >>
            /\ m.type # "PRIVATE" =>
                ~Has(m, "targetUserId") /\ ~Has(m, "targetUsername")

\* C26 witness: the history holds a PRIVATE message with its two target
\* fields next to a message of another type.
C26_Witness ==
    \E i, j \in 1..Len(messageHistory) :
        /\ messageHistory[i].type = "PRIVATE"
        /\ messageHistory[i].targetUsername = users[messageHistory[i].targetUserId].username
        /\ messageHistory[j].type # "PRIVATE"

\* C27: decoding the encoding of a message gives the message back, for messages
\* without optional field and for messages with both target fields set
C27_RoundTrip ==
    Has(cur["c1"], "decoded") => cur["c1"].decoded = cur["c1"].message

\* a private message whose content reads as an entity has made the round trip
C27_Witness ==
    /\ Has(cur["c1"], "decoded")
    /\ Has(cur["c1"].message, "targetUsername")
    /\ cur["c1"].message.content = << "&", "l", "t", ";" >>
    /\ IsBlank(cur["c1"].message.targetUsername)
    /\ Head(inbox["c1"]).elems.content # cur["c1"].message.content

\* the handler of c holds the decoded CHAT frame of its ACTIVE connection,
\* sent under the connection's id with a content
ChatPending(c) ==
    /\ Parsed(c)
    /\ TypeOf(Message(c)) = "CHAT"
    /\ Active(c)
    /\ Has(Message(c), "userId") /\ Message(c).userId = connUserId[c]
    /\ ~Falsy(Message(c), "content")

\* the handler of c has returned, the last message is a CHAT message of the
\* user of c, and its frame is the last frame of every connection that is
\* stored and open
ChatDelivered(c) ==
    /\ pc[c] = "idle"
    /\ messageHistory # << >>
    /\ Last(messageHistory).type = "CHAT"
    /\ Last(messageHistory).userId = connUserId[c]
    /\ \A d \in Conns :
          (readyState[d] = OPEN /\ ~Unbound(activeConnections, d)) =>
             /\ inbox[d] # << >>
             /\ Last(inbox[d]) = messageToXml(Last(messageHistory))

\* C28: under a fair event loop, the CHAT frame that the handler of an ACTIVE
\* connection holds is eventually delivered to every connection that is then
\* stored and open, whatever the state of the other stored handles, unless
\* the sender's user has left the registry by then.
C28_ChatEventuallyDelivered ==
    \A c \in Conns :
        ChatPending(c) ~> (ChatDelivered(c) \/ connUserId[c] \notin DOMAIN users)

\* C28 witness: the last message is a CHAT message of a user whose open handle
\* holds its frame, while another stored handle is CLOSING and was not sent it
C28_Witness ==
    \E c, d \in Conns :
        /\ c # d
        /\ Active(c)
        /\ ~Unbound(activeConnections, d)
        /\ readyState[d] = "CLOSING"
        /\ pc[c] = "idle"
        /\ messageHistory # << >>
        /\ Last(messageHistory).type = "CHAT"
        /\ Last(messageHistory).userId = connUserId[c]
        /\ inbox[c] # << >>
        /\ Last(inbox[c]) = messageToXml(Last(messageHistory))
        /\ ~Holds(d, messageToXml(Last(messageHistory)))

\* the LOGOUT case or the close listener of c tears down the user of c
Teardown(c) ==
    /\ DispatchLogout(c) \/ FinishClose(c)
    /\ connUserId[c] \in DOMAIN users
    /\ connUserId[c] \notin DOMAIN users'

\* C29 (as claimed): the teardown of a joined connection, by LOGOUT or by
\* transport close, unbinds the handle before it broadcasts: the step that
\* removes the user and broadcasts the LEAVE message sends the leaving handle
\* nothing.
C29_LeaveNotToLeaver ==
    [][\A c \in Conns :
         (Joined(c) /\ Teardown(c)) => inbox'[c] = inbox[c]]_vars

\* C30 (as claimed): once a reconnect has stored another handle under the id
\* of c, no step of the LOGOUT case or of the close listener of c removes that
\* user from the registry or takes the new handle out of the binding map.
C30_StaleTeardownHarmless ==
    [][\A c \in Conns :
         ( /\ Replaced(c)
           /\ connUserId[c] \in DOMAIN users
           /\ DispatchLogout(c) \/ LogoutReturn(c) \/ FinishClose(c) ) =>
            /\ connUserId[c] \in DOMAIN users'
            /\ BoundTo(activeConnections', connUserId[c],
                       activeConnections[connUserId[c]])]_vars

\* the ids the binding map stores the handle of c under
IdsOf(c) == { u \in DOMAIN activeConnections : activeConnections[u] = c }

\* C31 (as claimed): a handle is stored under at most one user id at any time,
\* whatever JOIN frames its connection sends.
C31_OneIdPerHandle ==
    \A c \in Conns : Cardinality(IdsOf(c)) <= 1

\* C32 (as claimed): the CHAT or PRIVATE message a handler appends to the
\* history carries as sender the user id its connection joined with, and the
\* handle of that connection is stored under that id.
C32_SenderIsConnectionUser ==
    [][\A c \in Conns :
         ((DispatchChat(c) \/ DispatchPrivate(c)) /\ clock' = clock + 1) =>
            /\ Last(messageHistory').userId = connUserId[c]
            /\ BoundTo(activeConnections, connUserId[c], c)]_vars

\* the handler of c runs the LOGOUT case to its end in this step or the next
LogoutStep(c) == DispatchLogout(c) \/ LogoutReturn(c)

LeaveCount(history) ==
    Cardinality({ i \in 1..Len(history) : history[i].type = "LEAVE" })

\* C34: a step appends a LEAVE message exactly when it removes a user from
\* the registry, it removes at most one, and an id that enters the registry
\* is a newly drawn one, so that no id ever gets a second LEAVE message; in
\* particular the close listener of a connection that has logged out appends
\* nothing.
C34_OneLeavePerUser ==
    [][/\ LeaveCount(messageHistory') - LeaveCount(messageHistory)
             = Cardinality(DOMAIN users \ DOMAIN users')
       /\ Cardinality(DOMAIN users \ DOMAIN users') <= 1
       /\ DOMAIN users' \ DOMAIN users \subseteq { uuidv4(nextId + 1) }
       /\ DOMAIN users' \ DOMAIN users # { } => nextId' = nextId + 1
       /\ nextId' >= nextId
       /\ \A c \in Conns :
             (FinishClose(c) /\ connUserId[c] \notin DOMAIN users) =>
                 messageHistory' = messageHistory]_vars

\* C34 witness: a connection has joined, logged out and been closed, and the
\* history holds one LEAVE message
C34_Witness ==
    \E c \in Conns :
        /\ readyState[c] = "CLOSED"
        /\ connUserId[c] = NoUser
        /\ \E i \in 1..Len(inbox[c]) : IsConfirmation(inbox[c][i])
        /\ nextId = 1
        /\ users = << >>
        /\ LeaveCount(messageHistory) = 1

\* the frame the catch block sends for an error message
ErrorReply(msg, now) ==
    messageToXml([ userId |-> SystemId, username |-> Sistema,
                   content |-> ErrorText(msg), timestamp |-> now, type |-> "CHAT" ])

\* the CHAT frame the handler of c holds lacks a user id or a content, or
\* names a user that is not registered
BadChat(c) ==
    /\ Parsed(c)
    /\ TypeOf(Message(c)) = "CHAT"
    /\ \/ Falsy(Message(c), "userId")
       \/ Falsy(Message(c), "content")
       \/ Message(c).userId \notin DOMAIN users

\* C35: the dispatch of a CHAT frame that lacks a user id or a content, or
\* whose user id is not registered, changes neither the registry nor the
\* binding map nor the history and sends nothing; the handler goes to its
\* catch block, which changes none of these either and sends one frame, the
\* error text under the system id, to the sending connection if it is open
\* and nothing to any other connection.
C35_BadChatOnlyErrorReply ==
    [][\A c \in Conns :
         /\ (BadChat(c) /\ DispatchChat(c)) =>
               /\ users' = users
               /\ activeConnections' = activeConnections
               /\ messageHistory' = messageHistory
               /\ inbox' = inbox
               /\ pc'[c] = "catch"
               /\ cur'[c].error \in { ErrChatData, ErrNoUser }
         /\ (Catch(c) /\ cur[c].error \in { ErrChatData, ErrNoUser }) =>
               /\ users' = users
               /\ activeConnections' = activeConnections
               /\ messageHistory' = messageHistory
               /\ \A d \in Conns \ { c } : inbox'[d] = inbox[d]
               /\ inbox'[c] = IF readyState[c] = OPEN
                               THEN Append(inbox[c], ErrorReply(cur[c].error, clock))
                               ELSE inbox[c]
               /\ pc'[c] = "idle"]_vars

\* C35 witness: while a user is registered with a stored open handle, another
\* open connection has been answered that its CHAT frame was incomplete, and
\* nothing is in the history but the JOIN message
C35_Witness ==
    \E c, d \in Conns :
        /\ c # d
        /\ Active(d)
        /\ pc[c] = "idle"
        /\ inbox[c] # << >>
        /\ Last(inbox[c]).elems.content = ErrorText(ErrChatData)
        /\ ~Holds(d, Last(inbox[c]))
        /\ Len(messageHistory) = 1

\* a frame that carries a message of the chat: not a roster, not an ERROR
\* frame, not a JOIN confirmation and not the error reply of a catch block
IsMessageFrame(frame) ==
    /\ frame.elems.type \in { "CHAT", "PRIVATE", "JOIN", "LEAVE" }
    /\ ~Has(frame.elems, "clientId")
    /\ ~(frame.elems.type = "CHAT" /\ frame.elems.userId = SystemId)

\* C36: outside the replay of a join, every message frame a step sends is the
\* frame of the message that the same step has appended to the history as its
\* last entry; and the history only ever holds CHAT and PRIVATE messages of
\* users and JOIN and LEAVE messages of the system, never a roster, an ERROR
\* frame, an error reply or a JOIN confirmation.
C36_DeliveredIsStored ==
    [][/\ \A c \in Conns : \A i \in 1..Len(NewFrames(c)) :
             (IsMessageFrame(NewFrames(c)[i]) /\ ~\E d \in Conns : JoinHistory(d)) =>
                 /\ messageHistory' # << >>
                 /\ messageHistory' = saveMessage(messageHistory, Last(messageHistory'))
                 /\ NewFrames(c)[i] = messageToXml(Last(messageHistory'))
       /\ \A i \in 1..Len(messageHistory') :
             LET m == messageHistory'[i]
             IN  /\ m.type \in { "CHAT", "PRIVATE", "JOIN", "LEAVE" }
                 /\ ~Has(m, "clientId")
                 /\ m.type \in { "CHAT", "PRIVATE" } <=> m.userId # SystemId]_vars

\* C36 witness: the last frame of an open stored connection is the frame of
\* the last message of the history, a LEAVE message, and the connection also
\* holds a roster and a JOIN confirmation, neither of which is in the history
C36_Witness ==
    \E c \in Conns :
        /\ Active(c)
        /\ messageHistory # << >>
        /\ Last(messageHistory).type = "LEAVE"
        /\ Last(inbox[c]) = messageToXml(Last(messageHistory))
        /\ \E i \in 1..Len(inbox[c]) : inbox[c][i].elems.type = "USER_LIST"
        /\ \E i \in 1..Len(inbox[c]) : IsConfirmation(inbox[c][i])

\* the step sends a message frame to c outside the replay of a join
LiveFrames(c) ==
    IF \E d \in Conns : JoinHistory(d) THEN << >>
    ELSE SelectSeq(NewFrames(c), IsMessageFrame)

\* C37: the history is in the order in which its messages were made, and a
\* message frame that a step delivers live to a connection is the frame of a
\* message made after every message whose frame the connection already
\* holds: live deliveries reach every connection in history order.
C37_LiveOrderIsHistoryOrder ==
    [][/\ \A i, j \in 1..Len(messageHistory') :
             i < j => messageHistory'[i].timestamp < messageHistory'[j].timestamp
       /\ \A c \in Conns : \A i \in 1..Len(LiveFrames(c)) :
             /\ LiveFrames(c)[i] = messageToXml(Last(messageHistory'))
             /\ \A j \in 1..Len(inbox[c]) :
                   IsMessageFrame(inbox[c][j]) =>
                       inbox[c][j].elems.timestamp < LiveFrames(c)[i].elems.timestamp
             /\ SubSeq(inbox'[c], 1, Len(inbox[c])) = inbox[c]]_vars

\* C37 witness: after its JOIN confirmation a connection holds the frames of
\* two messages made after the confirmation, in the order in which the
\* history holds the two messages
C37_Witness ==
    \E c \in Conns : \E h, i, j \in 1..Len(inbox[c]) :
        /\ h < i /\ i < j
        /\ IsConfirmation(inbox[c][h])
        /\ IsMessageFrame(inbox[c][i]) /\ IsMessageFrame(inbox[c][j])
        /\ inbox[c][h].elems.timestamp < inbox[c][i].elems.timestamp
        /\ \E k, l \in 1..Len(messageHistory) :
               /\ k < l
               /\ inbox[c][i] = messageToXml(messageHistory[k])
               /\ inbox[c][j] = messageToXml(messageHistory[l])

\* the messages of a history that handleJoin shows the user
VisibleTo(history, userId) ==
    LET Visible(m) == m.type = "PRIVATE" => (m.userId = userId \/ m.targetUserId = userId)
    IN  SelectSeq(history, Visible)

\* the last n entries of a history, all of them when it has fewer
Recent(history, n) ==
    [ i \in 1..Min(n, Len(history)) |-> history[Len(history) - Min(n, Len(history)) + i] ]

\* C38: the replay of a join sends the joining connection, after what it
\* already holds, one frame for each message among the 20 most recent history
\* entries (all of them when the history has fewer) that is not a PRIVATE
\* message between other users, in history order, and sends no other
\* connection anything.
C38_ReplayRecentVisible ==
    [][\A c \in Conns :
         JoinHistory(c) =>
            LET shown == VisibleTo(Recent(messageHistory, 20), cur[c].message.userId)
            IN  /\ inbox'[c] = inbox[c] \o [ i \in 1..Len(shown) |-> messageToXml(shown[i]) ]
                /\ \A d \in Conns \ { c } : inbox'[d] = inbox[d]]_vars

\* C38 witness: a join has replayed while the history held more than 20
\* messages: the connection holds the frame of a CHAT message among the 20
\* most recent, not that of a PRIVATE message among them, and not that of the
\* oldest message
C38_Witness ==
    \E c \in Conns :
        /\ pc[c] = "join_return"
        /\ Len(messageHistory) > 20
        /\ ~Holds(c, messageToXml(messageHistory[1]))
        /\ \E k \in (Len(messageHistory) - 19)..Len(messageHistory) :
               /\ messageHistory[k].type = "CHAT"
               /\ Holds(c, messageToXml(messageHistory[k]))
        /\ \E k \in (Len(messageHistory) - 19)..Len(messageHistory) :
               /\ messageHistory[k].type = "PRIVATE"
               /\ ~Holds(c, messageToXml(messageHistory[k]))
        /\ Len(inbox[c]) < 21

====
